---------------------------- MODULE Spec2Model ----------------------------
(***************************************************************************)
(* Raven Device Settings Manager (src/app.py): the API client functions,   *)
(* the Streamlit session state and one action per user-triggered script    *)
(* run.                                                                    *)
(*                                                                         *)
(* Python values.  A scalar is written as a TLA+ string: None is "None",   *)
(* True/False are "True"/"False", a number is its literal ("0", "0.0",     *)
(* "80"), a str is its text ("" is the empty str).  A dict is a function   *)
(* from its keys.  An optional compound value (a dict, a list) is held in  *)
(* a sequence of length at most one: <<>> is None, <<v>> is v.             *)
(***************************************************************************)
EXTENDS Integers, Sequences, FiniteSets, TLC

None == "None"
PyTrue == "True"
PyFalse == "False"

\* {} : the empty dict.
EmptyDict == [k \in {} |-> None]

\* bool(v) of a scalar v.
Truthy(v) == v \notin {"None", "False", "0", "0.0", ""}

\* d.get(k, default)
Get(d, k, default) == IF k \in DOMAIN d THEN d[k] ELSE default

\* bool(h) of an optional dict: None and {} are falsy.
TruthyDict(h) == h # <<>> /\ DOMAIN h[1] # {}

\* bool(h) of an optional list: None and [] are falsy.
TruthyList(h) == h # <<>> /\ Len(h[1]) > 0

(***************************************************************************)
(* HTTP.  A response of requests.request(): exc is the exception the call  *)
(* itself raises (timeout, connection failure) or "None"; status is the    *)
(* HTTP status; kind is what response.json() meets ("dict", "null",        *)
(* "list", or "invalid" when it raises); data is the decoded dict; text is *)
(* response.text.                                                          *)
(***************************************************************************)
Response(exc, status, kind, data, text) ==
    [exc |-> exc, status |-> status, kind |-> kind, data |-> data, text |-> text]

\* response.raise_for_status(): HTTPError for 4xx and 5xx only.
raise_for_status(resp) ==
    IF resp.status >= 400 /\ resp.status < 600
    THEN "HTTPError " \o ToString(resp.status)
    ELSE None

\* The exception of `requests.<verb>(...); response.raise_for_status()`.
SendRaises(resp) ==
    IF resp.exc # None THEN resp.exc ELSE raise_for_status(resp)

\* The exception of response.json().
JsonRaises(resp) == IF resp.kind = "invalid" THEN "JSONDecodeError" ELSE None

(***************************************************************************)
(* API client, lines 12-118.  Each returns the pair the code returns.      *)
(***************************************************************************)
request_token(resp) ==
    IF SendRaises(resp) # None THEN <<None, "Token Error: " \o SendRaises(resp)>>
    ELSE IF JsonRaises(resp) # None THEN <<None, "Token Error: " \o JsonRaises(resp)>>
    ELSE IF resp.kind # "dict" THEN <<None, "Token Error: AttributeError">>
    ELSE <<Get(resp.data, "token", None), None>>

\* response.json() of a settings response, as an optional dict.
JsonDict(resp) == IF resp.kind = "dict" THEN <<resp.data>> ELSE <<>>

get_settings(resp) ==
    IF SendRaises(resp) # None THEN << <<>>, "Get Settings Error: " \o SendRaises(resp)>>
    ELSE IF JsonRaises(resp) # None THEN << <<>>, "Get Settings Error: " \o JsonRaises(resp)>>
    ELSE <<JsonDict(resp), None>>

update_settings(resp) ==
    IF SendRaises(resp) # None
    THEN <<None, "Update Error: " \o SendRaises(resp) \o "\nResponse Body: "
                 \o (IF resp.exc # None THEN "" ELSE resp.text)>>
    ELSE <<"Settings updated successfully!", None>>

send_message(resp) ==
    IF SendRaises(resp) # None THEN <<None, "Send Message Error: " \o SendRaises(resp)>>
    ELSE <<"Message sent successfully!", None>>

clear_message(resp) ==
    IF SendRaises(resp) # None THEN <<None, "Clear Message Error: " \o SendRaises(resp)>>
    ELSE <<"Clear message request sent successfully!", None>>

(***************************************************************************)
(* list_devices, lines 25-70.  A str built by an f-string is kept as the   *)
(* sequence of its parts (the three values and the two spaces between      *)
(* them) while strip() and replace() work on it, then joined.              *)
(***************************************************************************)
RECURSIVE lstrip(_)
lstrip(parts) ==
    IF parts = <<>> THEN parts
    ELSE IF Head(parts) \in {"", " "} THEN lstrip(Tail(parts))
    ELSE parts

RECURSIVE rstrip(_)
rstrip(parts) ==
    IF parts = <<>> THEN parts
    ELSE IF parts[Len(parts)] \in {"", " "} THEN rstrip(SubSeq(parts, 1, Len(parts) - 1))
    ELSE parts

\* str.strip()
strip(parts) == rstrip(lstrip(parts))

\* str.replace("N/A", "")
replace_NA(parts) == [i \in 1..Len(parts) |-> IF parts[i] = "N/A" THEN "" ELSE parts[i]]

RECURSIVE join(_, _)
join(sep, parts) ==
    IF parts = <<>> THEN ""
    ELSE IF Len(parts) = 1 THEN parts[1]
    ELSE parts[1] \o sep \o join(sep, Tail(parts))

\* Lines 60-62.
vehicle_name(vehicle_year, vehicle_make, vehicle_model, sn) ==
    LET name == join("", strip(replace_NA(strip(
                    <<vehicle_year, " ", vehicle_make, " ", vehicle_model>>))))
    IN IF name = "" THEN "Vehicle SN: " \o sn ELSE name

\* Lines 49-52: the exception of the lookup's request or of its .json().get,
\* or None.
RequestRaises(resp) ==
    IF SendRaises(resp) # None THEN SendRaises(resp)
    ELSE IF JsonRaises(resp) # None THEN JsonRaises(resp)
    ELSE IF resp.kind # "dict" THEN "AttributeError"
    ELSE None

\* Line 52: nhtsa_results, each entry held as <<object>>, or as <<>> when it
\* is a JSON null; nothing when line 52 was not reached.
nhtsa_results(resp) ==
    IF RequestRaises(resp) # None THEN <<>> ELSE Get(resp.data, "Results", <<>>)

\* Lines 53-56: how many entries the loop reads before result.get raises on
\* an entry that is no object; all of them when every entry is one.
results_read(results) ==
    IF \E i \in 1..Len(results) : results[i] = <<>>
    THEN (CHOOSE i \in 1..Len(results) :
             results[i] = <<>> /\ \A j \in 1..(i-1) : results[j] # <<>>) - 1
    ELSE Len(results)

\* The exception of the VIN lookup's try block (lines 48-56), or None.
LookupRaises(resp) ==
    IF RequestRaises(resp) # None THEN RequestRaises(resp)
    ELSE IF results_read(nhtsa_results(resp)) < Len(nhtsa_results(resp))
    THEN "AttributeError"
    ELSE None

\* Lines 53-56: the value the loop leaves for `variable` after reading the
\* first n results: that of the last of them naming it, 'N/A' when none does.
RECURSIVE nhtsa_value(_, _, _)
nhtsa_value(results, variable, n) ==
    IF n = 0 THEN "N/A"
    ELSE IF Get(results[n][1], "Variable", None) = variable
    THEN Get(results[n][1], "Value", "N/A")
    ELSE nhtsa_value(results, variable, n - 1)

\* One pass of the loop body, lines 42-65: the option and the status lines.
\* What the loop assigned before an exception stays assigned (lines 54-58).
device_entry(device, lookups) ==
    LET uuid == Get(device, "uuid", "N/A")
        sn == Get(device, "enclosure_serial_no", "N/A")
        vin == Get(device, "vin", "")
        results == IF Truthy(vin) THEN nhtsa_results(lookups[vin]) ELSE <<>>
        n == results_read(results)
        name == vehicle_name(nhtsa_value(results, "Model Year", n),
                             nhtsa_value(results, "Make", n),
                             nhtsa_value(results, "Model", n), sn)
        warning == IF Truthy(vin) /\ LookupRaises(lookups[vin]) # None
                   THEN <<"Could not look up VIN " \o vin \o ": "
                          \o LookupRaises(lookups[vin])>>
                   ELSE <<>>
    IN [option |-> [name |-> name, uuid |-> uuid],
        lines |-> warning \o <<"Found: " \o name \o " (UUID: " \o uuid \o ")">>]

RECURSIVE status_lines(_, _, _)
status_lines(devices_data, lookups, n) ==
    IF n = 0 THEN <<>>
    ELSE status_lines(devices_data, lookups, n - 1)
         \o device_entry(devices_data[n], lookups).lines

list_devices(resp, lookups) ==
    IF SendRaises(resp) # None
    THEN << <<>>, "An error occurred while listing devices: " \o SendRaises(resp)>>
    ELSE IF JsonRaises(resp) # None
    THEN << <<>>, "An error occurred while listing devices: " \o JsonRaises(resp)>>
    ELSE IF resp.kind \notin {"dict", "results_not_list"}
    THEN << <<>>, "An error occurred while listing devices: AttributeError">>
    ELSE IF resp.kind = "results_not_list"
    THEN << <<>>, "API response did not return a list of devices.">>
    ELSE LET devices_data == Get(resp.data, "results", <<>>)
         IN << << [i \in 1..Len(devices_data) |->
                     device_entry(devices_data[i], lookups).option] >>,
               join("\n", status_lines(devices_data, lookups, Len(devices_data))) >>

\* Lines 44-50: the lookups list_devices sends, one for each VIN of the
\* listing, and the response each receives.
looked_up(resp, lookups) ==
    IF TruthyList(list_devices(resp, lookups)[1])
    THEN LET devices_data == Get(resp.data, "results", <<>>)
         IN [vin \in {Get(devices_data[i], "vin", "") : i \in 1..Len(devices_data)} \ {""}
                |-> lookups[vin]]
    ELSE EmptyDict

(***************************************************************************)
(* Settings form, lines 234-430.  The widgets rebuild update_payload on    *)
(* every run from the held document s and the user's edits.  edits maps a  *)
(* field ("section.key") to what the user entered in its widget; a field   *)
(* the user has not touched is absent from it.                             *)
(***************************************************************************)
Field(section, key) == section \o "." \o key

IntValues == {"0", "5", "80", "300", "11500"}
FloatValues == {"0.0", "1.5"}

\* st.checkbox(label, value): bool(value), or the user's tick.
checkbox(value, edits, f) ==
    IF f \in DOMAIN edits THEN edits[f]
    ELSE IF Truthy(value) THEN PyTrue ELSE PyFalse

\* st.number_input(label, value=value): the value, or the number entered.
number_input(value, edits, f) == IF f \in DOMAIN edits THEN edits[f] ELSE value

\* st.text_input(label, value): the value (None stays None until the user
\* types), or the text entered.
text_input(value, edits, f) == IF f \in DOMAIN edits THEN edits[f] ELSE value

\* An index lookup that falls back to the first option for an absent x.
index_or_first(options, x) ==
    IF \E i \in 1..Len(options) : options[i] = x
    THEN CHOOSE i \in 1..Len(options) :
            options[i] = x /\ \A j \in 1..(i-1) : options[j] # x
    ELSE 1

\* list.index(x), 1-based; 0 stands for the ValueError of an absent x.
index(options, x) ==
    IF \E i \in 1..Len(options) : options[i] = x
    THEN CHOOSE i \in 1..Len(options) :
            options[i] = x /\ \A j \in 1..(i-1) : options[j] # x
    ELSE 0

\* st.selectbox(label, options, index=idx): options[idx], or the option the
\* user picked.  Reached only when idx was computed without a ValueError.
selectbox(options, idx, edits, f) ==
    IF f \in DOMAIN edits THEN edits[f] ELSE options[idx]

\* float(v)
float(v) == IF v \in IntValues THEN v \o ".0" ELSE v

vid_profile_options == <<"standard", "legacy", "balanced", "extended">>
threshold_type_options == <<"CONSTANT", "PERCENT">>
request_period_options == <<"PER_TRIP", "ALWAYS">>

\* The enum fields and their option lists (lines 285, 323, 329, 410).
EnumFields ==
    { <<"camera", "video_recording_profile", vid_profile_options>>,
      <<"events", "speeding_event_threshold_type", threshold_type_options>>,
      <<"events", "speeding_visual_warning_threshold_type", threshold_type_options>>,
      <<"driver_id", "barcode_driver_id_request_period", request_period_options>> }

\* s.get(section, {})
section_data(s, section) == Get(s, section, EmptyDict)

audio_keys ==
    {"audio_notifications_enabled", "streaming_audio_enabled",
     "message_notification_audio_enabled"}

audio_payload(s, edits) ==
    LET audio_data == section_data(s, "audio")
    IN [k \in audio_keys |-> checkbox(Get(audio_data, k, None), edits, Field("audio", k))]

camera_keys == {"camera_enabled", "audio_recording"}

camera_payload(s, edits) ==
    LET cam_data == section_data(s, "camera")
        road_cam_data == Get(cam_data, "road_camera", EmptyDict)
        cabin_cam_data == Get(cam_data, "cabin_camera", EmptyDict)
        vid_profile ==
            selectbox(vid_profile_options,
                      index(vid_profile_options,
                            Get(cam_data, "video_recording_profile", "standard")),
                      edits, Field("camera", "video_recording_profile"))
    IN ("road_camera" :>
           [k \in camera_keys |->
               checkbox(Get(road_cam_data, k, None), edits,
                        Field("camera", "road_camera." \o k))])
       @@ ("cabin_camera" :>
           [k \in camera_keys |->
               checkbox(Get(cabin_cam_data, k, None), edits,
                        Field("camera", "cabin_camera." \o k))])
       @@ ("video_recording_profile" :> vid_profile)

\* dms_row(label, base_key, data), lines 337-346: the row's four keys.
dms_base_keys ==
    {"cellphone_detection", "camera_obscured", "distracted_detection",
     "drinking_detection", "eating_detection", "smoking_detection", "tired_detection"}

events_checkbox_keys ==
    {"harsh_braking_event_enabled", "aggressive_accel_event_enabled",
     "harsh_cornering_event_enabled", "possible_impact_event_enabled",
     "car_bumped_event_enabled", "idling_event_enabled", "speeding_event_enabled",
     "auto_video_upload_enabled", "bad_install_event_enabled",
     "tailgating_detection_event_enabled", "tailgating_detection_visual_alert_enabled",
     "vanishing_point_calibration_enabled", "vanishing_point_calibration_force"}
    \cup {b \o "_event_enabled" : b \in dms_base_keys}
    \cup {b \o "_visual_alert_enabled" : b \in dms_base_keys}

events_number_keys ==
    {"harsh_braking_accel_threshold", "aggressive_accel_threshold",
     "harsh_cornering_accel_threshold", "possible_impact_accel_threshold",
     "car_bumped_accel_threshold", "idling_event_grace_period",
     "idling_event_speed_floor", "speeding_event_threshold",
     "speeding_visual_warning_threshold", "tailgating_detection_speed_threshold",
     "tailgating_detection_grace_period", "security_event_preview_count",
     "security_event_preview_duration", "security_event_video_duration"}
    \cup {b \o "_grace_period" : b \in dms_base_keys}
    \cup {b \o "_speed_threshold" : b \in dms_base_keys}

events_float_keys ==
    {"tailgating_detection_follow_time", "tailgating_detection_critical_reaction_time",
     "tailgating_detection_alert_reaction_time", "tailgating_detection_safe_reaction_time"}

events_select_keys ==
    {"speeding_event_threshold_type", "speeding_visual_warning_threshold_type"}

events_payload(s, edits) ==
    LET events_data == section_data(s, "events")
        f(k) == Field("events", k)
    IN [k \in events_checkbox_keys \cup events_number_keys
                \cup events_float_keys \cup events_select_keys |->
          IF k \in events_checkbox_keys
          THEN checkbox(Get(events_data, k, None), edits, f(k))
          ELSE IF k \in events_number_keys
          THEN number_input(Get(events_data, k, "0"), edits, f(k))
          ELSE IF k \in events_float_keys
          THEN number_input(float(Get(events_data, k, "0.0")), edits, f(k))
          ELSE selectbox(threshold_type_options,
                         index(threshold_type_options, Get(events_data, k, "CONSTANT")),
                         edits, f(k))]

obd_payload(s, edits) ==
    LET obd_data == section_data(s, "obd")
    IN ("canbus_enabled" :>
           checkbox(Get(obd_data, "canbus_enabled", None), edits,
                    Field("obd", "canbus_enabled")))
       @@ ("low_battery_cutoff_millivolts" :>
           number_input(Get(obd_data, "low_battery_cutoff_millivolts", "0"), edits,
                        Field("obd", "low_battery_cutoff_millivolts")))

wifi_payload(s, edits) ==
    LET wifi_data == section_data(s, "wifi_hotspot")
        f(k) == Field("wifi_hotspot", k)
    IN [k \in {"hotspot_enabled", "auto_disable_on_engine_off", "ssid", "password"} |->
          IF k \in {"hotspot_enabled", "auto_disable_on_engine_off"}
          THEN checkbox(Get(wifi_data, k, None), edits, f(k))
          ELSE text_input(Get(wifi_data, k, None), edits, f(k))]

driver_id_payload(s, edits) ==
    LET did_data == section_data(s, "driver_id")
        f(k) == Field("driver_id", k)
    IN ("barcode_driver_id_enabled" :>
           checkbox(Get(did_data, "barcode_driver_id_enabled", None), edits,
                    f("barcode_driver_id_enabled")))
       @@ ("barcode_driver_id_request_period" :>
           selectbox(request_period_options,
                     index(request_period_options,
                           Get(did_data, "barcode_driver_id_request_period", "PER_TRIP")),
                     edits, f("barcode_driver_id_request_period")))
       @@ ("barcode_driver_id_audio_delay" :>
           number_input(Get(did_data, "barcode_driver_id_audio_delay", "0"), edits,
                        f("barcode_driver_id_audio_delay")))

system_payload(s, edits) ==
    LET sys_data == section_data(s, "system")
        f(k) == Field("system", k)
    IN [k \in {"gesture_enabled", "video_recording_after_parked_duration",
               "vehicle_speed_adjustment_percent"} |->
          IF k = "gesture_enabled"
          THEN checkbox(Get(sys_data, k, None), edits, f(k))
          ELSE number_input(Get(sys_data, k, "0"), edits, f(k))]

eld_payload(s, edits) ==
    LET eld_data == section_data(s, "eld")
        f(k) == Field("eld", k)
    IN [k \in {"eld_enabled", "eld_visual_ud_alert_enabled",
               "eld_visual_ud_alert_period"} |->
          IF k = "eld_visual_ud_alert_period"
          THEN number_input(Get(eld_data, k, "0"), edits, f(k))
          ELSE checkbox(Get(eld_data, k, None), edits, f(k))]

\* update_payload as it stands when the SAVE button is reached (line 434).
update_payload(s, edits) ==
    ("audio" :> audio_payload(s, edits))
    @@ ("camera" :> camera_payload(s, edits))
    @@ ("events" :> events_payload(s, edits))
    @@ ("obd" :> obd_payload(s, edits))
    @@ ("wifi_hotspot" :> wifi_payload(s, edits))
    @@ ("driver_id" :> driver_id_payload(s, edits))
    @@ ("system" :> system_payload(s, edits))
    @@ ("eld" :> eld_payload(s, edits))

\* Whether options.index(s[section].get(key, options[0])) raises ValueError.
IndexRaises(s, section, key, options) ==
    index(options, Get(section_data(s, section), key, options[1])) = 0

\* The exception that ends the form's render before the SAVE button, or None,
\* in the order of the tabs: options.index(x) raises ValueError for an x
\* outside the options (lines 286, 323, 329, 410) and float(x) raises
\* TypeError for an x that is no number (lines 365-369).
FormRaises(s) ==
    IF IndexRaises(s, "camera", "video_recording_profile", vid_profile_options)
    THEN "ValueError"
    ELSE IF \E k \in events_select_keys : IndexRaises(s, "events", k, threshold_type_options)
    THEN "ValueError"
    ELSE IF \E k \in events_float_keys :
               Get(section_data(s, "events"), k, "0.0") \notin IntValues \cup FloatValues
    THEN "TypeError"
    ELSE IF IndexRaises(s, "driver_id", "barcode_driver_id_request_period",
                        request_period_options)
    THEN "ValueError"
    ELSE None

\* The sections the form rebuilds (lines 262-426) and, of each, the keys its
\* widgets cover.
ManagedSections ==
    {"audio", "camera", "events", "obd", "wifi_hotspot", "driver_id", "system", "eld"}

FormKeys(section) ==
    CASE section = "audio" -> audio_keys
      [] section = "camera" -> {"road_camera", "cabin_camera", "video_recording_profile"}
      [] section = "events" -> events_checkbox_keys \cup events_number_keys
                                 \cup events_float_keys \cup events_select_keys
      [] section = "obd" -> {"canbus_enabled", "low_battery_cutoff_millivolts"}
      [] section = "wifi_hotspot" ->
            {"hotspot_enabled", "auto_disable_on_engine_off", "ssid", "password"}
      [] section = "driver_id" ->
            {"barcode_driver_id_enabled", "barcode_driver_id_request_period",
             "barcode_driver_id_audio_delay"}
      [] section = "system" ->
            {"gesture_enabled", "video_recording_after_parked_duration",
             "vehicle_speed_adjustment_percent"}
      [] section = "eld" ->
            {"eld_enabled", "eld_visual_ud_alert_enabled", "eld_visual_ud_alert_period"}

\* The widget of a covered key: st.checkbox is "boolean", st.number_input
\* "integer" or (with value=float(...)) "float", st.text_input "string",
\* st.selectbox "enum"; the two camera sub-sections are "section".
FieldKind(section, key) ==
    IF \E e \in EnumFields : e[1] = section /\ e[2] = key THEN "enum"
    ELSE IF section = "camera" THEN "section"
    ELSE IF section = "wifi_hotspot" /\ key \in {"ssid", "password"} THEN "string"
    ELSE IF section = "events" /\ key \in events_float_keys THEN "float"
    ELSE IF \/ section = "events" /\ key \in events_number_keys
            \/ key \in {"low_battery_cutoff_millivolts", "barcode_driver_id_audio_delay",
                        "video_recording_after_parked_duration",
                        "vehicle_speed_adjustment_percent", "eld_visual_ud_alert_period"}
    THEN "integer"
    ELSE "boolean"

(***************************************************************************)
(* The session.  st.session_state (lines 126-135) and, beside it, what the *)
(* last script run did: the API calls it issued, what they returned, what  *)
(* it showed.                                                              *)
(***************************************************************************)
VARIABLES
    access_token,     \* st.session_state.access_token: None or a str
    devices,          \* st.session_state.devices: a list of {name, uuid}
    selected_uuid,    \* st.session_state.selected_uuid: None or a str
    current_settings, \* st.session_state.current_settings: an optional dict
    status_message,   \* st.session_state.status_message
    device_select,    \* the device selectbox as last rendered: <<>> when it
                      \* was not, else <<[options, index, value]>>
    rerun,            \* st.rerun() was called: the next run starts by itself
    button,           \* what started the last run
    calls,            \* the API calls of the last run: [fn, token, uuid]
    returned,         \* what they returned: [fn, value, error], value being
                      \* whether the first element is not None
    responses,        \* the HTTP responses to those calls, in the same order
    submitted,        \* the payload the last run passed to update_settings
    entered,          \* what the user had entered in the form it was built from
    discarded,        \* the settings line 210 replaced by None in the last run
    shown,            \* st.success / st.warning / st.error of the last run
    raised,           \* the exception that ended the last run, or None
    settings_uuid,    \* the uuid argument of the get_settings call whose
                      \* result was last assigned to current_settings
    nhtsa_responses   \* the responses to the VIN lookups of the last run, by VIN

vars == <<access_token, devices, selected_uuid, current_settings, status_message,
          device_select, rerun, button, calls, returned, responses, submitted,
          entered, discarded, shown, raised, settings_uuid, nhtsa_responses>>

\* The state a run starts from: the session as it is, nothing done yet.
RunStart(ev) ==
    [access_token |-> access_token, devices |-> devices,
     selected_uuid |-> selected_uuid, current_settings |-> current_settings,
     status_message |-> status_message, device_select |-> device_select,
     settings_uuid |-> settings_uuid,
     rerun |-> FALSE, button |-> ev.button, calls |-> <<>>, returned |-> <<>>,
     responses |-> <<>>, submitted |-> <<>>, entered |-> EmptyDict,
     discarded |-> <<>>, shown |-> <<>>, raised |-> None,
     nhtsa_responses |-> EmptyDict]

Call(fn, token, uuid) == [fn |-> fn, token |-> token, uuid |-> uuid]
Returned(fn, value, error) == [fn |-> fn, value |-> value, error |-> error]
Shown(level, text) == [level |-> level, text |-> text]

\* Lines 152-166.
Section1(st, ev) ==
    LET r == request_token(ev.resp)
        token == r[1]
        error == r[2]
        called == [st EXCEPT !.calls = Append(@, Call("request_token", None, None)),
                             !.responses = Append(@, ev.resp),
                             !.returned = Append(@, Returned("request_token",
                                                              token # None, error))]
        stored == IF Truthy(token)
                  THEN [called EXCEPT !.access_token = token,
                                      !.shown = Append(@, Shown("success",
                                                     "Access Token received!"))]
                  ELSE called
        failed == IF Truthy(error)
                  THEN [stored EXCEPT !.access_token = None,
                                      !.shown = Append(@, Shown("error", error))]
                  ELSE stored
        s1 == IF ev.button = "token" THEN failed ELSE st
    IN IF Truthy(s1.access_token) THEN s1
       ELSE [s1 EXCEPT !.shown = Append(@, Shown("warning",
                 "No active access token. Please request a token."))]

\* Line 191-193: the distinct names in the order of their first device.
RECURSIVE device_names(_, _)
device_names(devs, n) ==
    IF n = 0 THEN <<>>
    ELSE IF \E j \in 1..(n-1) : devs[j].name = devs[n].name
    THEN device_names(devs, n - 1)
    ELSE Append(device_names(devs, n - 1), devs[n].name)

\* Line 191: device_map[name], the uuid of the last device of that name.
device_map(devs, name) ==
    devs[CHOOSE i \in 1..Len(devs) :
            devs[i].name = name /\ \A j \in (i+1)..Len(devs) : devs[j].name # name].uuid

\* Lines 194-200, 1-based: the first name whose uuid is the selected one, and
\* the first name when there is none (or nothing is selected).
current_selection_index(devs, selected) ==
    LET names == device_names(devs, Len(devs))
    IN IF Truthy(selected) /\ \E i \in 1..Len(names) : device_map(devs, names[i]) = selected
       THEN CHOOSE i \in 1..Len(names) :
               /\ device_map(devs, names[i]) = selected
               /\ \A j \in 1..(i-1) : device_map(devs, names[j]) # selected
       ELSE 1

\* Lines 202-206: what the selectbox returns.  Streamlit identifies a widget
\* by its arguments: the user's choice is kept while options and index stay
\* the same, and the widget starts again at options[index] when they change.
selected_name(st, ev) ==
    LET options == device_names(st.devices, Len(st.devices))
        idx == current_selection_index(st.devices, st.selected_uuid)
        kept == /\ st.device_select # <<>>
                /\ st.device_select[1].options = options
                /\ st.device_select[1].index = idx
    IN IF kept /\ ev.button = "select" THEN ev.choice
       ELSE IF kept THEN st.device_select[1].value
       ELSE options[idx]

\* A selection update without the clearing of line 210.
SelectUuidKeepingSettings(st, uuid) ==
    [st EXCEPT !.selected_uuid = uuid, !.rerun = TRUE]

\* Lines 209-211.
SelectUuid(st, uuid) ==
    [st EXCEPT !.selected_uuid = uuid, !.discarded = st.current_settings,
               !.current_settings = <<>>, !.rerun = TRUE]

\* Lines 190-213.
DevicePicker(st, ev) ==
    LET name == selected_name(st, ev)
        drawn == [st EXCEPT !.device_select =
                     << [options |-> device_names(st.devices, Len(st.devices)),
                         index |-> current_selection_index(st.devices, st.selected_uuid),
                         value |-> name] >>]
    IN IF st.selected_uuid # device_map(st.devices, name)
       THEN SelectUuid(drawn, device_map(st.devices, name))
       ELSE drawn

\* Lines 177-184, r being the pair list_devices returned (line 179).
ListHandler(st, ev) ==
    CHOOSE out \in
      { [st EXCEPT !.calls = Append(@, Call("list_devices", st.access_token, None)),
                   !.responses = Append(@, ev.resp),
                   !.returned = Append(@, Returned("list_devices", r[1] # <<>>, r[2])),
                   !.nhtsa_responses = looked_up(ev.resp, ev.lookups),
                   !.status_message = r[2],
                   !.devices = IF TruthyList(r[1]) THEN r[1][1] ELSE <<>>]
        : r \in {list_devices(ev.resp, ev.lookups)} } : TRUE

\* Lines 172-184: the button is there, and acts, when a token is held.
ListStep(st, ev) ==
    IF Truthy(st.access_token) /\ ev.button = "list" THEN ListHandler(st, ev) ELSE st

\* Lines 172-174 and 186-213.
PickStep(st, ev) ==
    IF ~Truthy(st.access_token)
    THEN [st EXCEPT !.device_select = <<>>,
                    !.shown = Append(@, Shown("warning",
                        "You must request an access token before you can select a device."))]
    ELSE LET s1 == IF Truthy(st.status_message)
                   THEN [st EXCEPT !.shown = Append(@, Shown("info", st.status_message))]
                   ELSE st
         IN IF Len(st.devices) > 0 THEN DevicePicker(s1, ev)
            ELSE [s1 EXCEPT !.device_select = <<>>]

\* Lines 223-231.
GetHandler(st, ev) ==
    LET r == get_settings(ev.resp)
        settings == r[1]
        error == r[2]
        called == [st EXCEPT
                     !.calls = Append(@, Call("get_settings", st.access_token,
                                              st.selected_uuid)),
                     !.returned = Append(@, Returned("get_settings", settings # <<>>, error)),
                     !.responses = Append(@, ev.resp)]
        stored == IF TruthyDict(settings)
                  THEN [called EXCEPT !.current_settings = settings,
                                      !.settings_uuid = st.selected_uuid,
                                      !.shown = Append(@, Shown("success",
                                          "Successfully loaded current settings."))]
                  ELSE called
    IN IF Truthy(error)
       THEN [stored EXCEPT !.current_settings = <<>>,
                           !.shown = Append(@, Shown("error", error))]
       ELSE stored

\* Lines 250-257: one of the two message buttons.
MessageHandler(st, ev) ==
    LET fn == IF ev.button = "send" THEN "send_message" ELSE "clear_message"
        r == IF ev.button = "send" THEN send_message(ev.resp) ELSE clear_message(ev.resp)
        called == [st EXCEPT
                     !.calls = Append(@, Call(fn, st.access_token, st.selected_uuid)),
                     !.responses = Append(@, ev.resp),
                     !.returned = Append(@, Returned(fn, r[1] # None, r[2]))]
        told == IF Truthy(r[1])
                THEN [called EXCEPT !.shown = Append(@, Shown("success", r[1]))]
                ELSE called
    IN IF Truthy(r[2])
       THEN [told EXCEPT !.shown = Append(@, Shown("error", r[2]))]
       ELSE told

\* Line 436: the SAVE button's call, with the payload the form assembled.
SaveCall(st, ev) ==
    LET r == update_settings(ev.resp)
    IN [st EXCEPT
          !.calls = Append(@, Call("update_settings", st.access_token, st.selected_uuid)),
          !.responses = Append(@, ev.resp),
          !.returned = Append(@, Returned("update_settings", r[1] # None, r[2])),
          !.entered = ev.edits,
          !.submitted = <<update_payload(st.current_settings[1], ev.edits)>>]

\* A refresh that keeps the submitted payload instead of asking the server.
RefreshWithPayload(st, ev) ==
    [st EXCEPT !.current_settings = st.submitted,
               !.settings_uuid = st.selected_uuid,
               !.rerun = TRUE]

\* Lines 440-441: the refresh after a successful update.
Refresh(st, ev) ==
    LET g == get_settings(ev.resp2)
    IN [st EXCEPT
          !.calls = Append(@, Call("get_settings", st.access_token, st.selected_uuid)),
          !.returned = Append(@, Returned("get_settings", g[1] # <<>>, g[2])),
          !.responses = Append(@, ev.resp2),
          !.current_settings = g[1],
          !.settings_uuid = st.selected_uuid,
          !.rerun = TRUE]

\* An outcome that refreshes the document whatever update_settings returned.
SaveOutcomeRefreshing(st, ev) == Refresh(st, ev)

\* Lines 437-443, st being the run after the call of line 436.
SaveOutcome(st, ev) ==
    LET r == update_settings(ev.resp)
        success == r[1]
        error == r[2]
    IN IF Truthy(success)
       THEN Refresh([st EXCEPT !.shown = Append(@, Shown("success", success))], ev)
       ELSE IF Truthy(error)
       THEN [st EXCEPT !.shown = Append(@, Shown("error", error))]
       ELSE st

\* Lines 219-231: section 3 up to the form.
GetStep(st, ev) ==
    IF ~Truthy(st.selected_uuid)
    THEN [st EXCEPT !.shown = Append(@, Shown("warning",
              "You must select a device above to manage its settings."))]
    ELSE IF ev.button = "get" THEN GetHandler(st, ev) ELSE st

\* Whether the run renders the form (lines 219, 234).
FormShown(st) == Truthy(st.selected_uuid) /\ TruthyDict(st.current_settings)

\* Lines 245-257: the messaging tab.
MessageStep(st, ev) ==
    IF FormShown(st) /\ ev.button \in {"send", "clear"} THEN MessageHandler(st, ev) ELSE st

\* Lines 259-436: the settings tabs, which may raise, then the SAVE button.
FormStep(st, ev) ==
    IF ~FormShown(st) THEN st
    ELSE IF FormRaises(st.current_settings[1]) # None
    THEN [st EXCEPT !.raised = FormRaises(st.current_settings[1])]
    ELSE IF ev.button = "save" THEN SaveCall(st, ev)
    ELSE st

\* Lines 437-443 when line 436 was reached.
OutcomeStep(st, ev) ==
    IF st.submitted # <<>> THEN SaveOutcome(st, ev) ELSE st

\* One run of the script, top to bottom, and its result made the session;
\* st.rerun() (line 211) ends the run before section 3.
Run(ev) ==
    \E s1 \in {Section1(RunStart(ev), ev)} :
    \E s2 \in {ListStep(s1, ev)} :
    \E s3 \in {PickStep(s2, ev)} :
    \E s4 \in {IF s3.rerun THEN s3 ELSE GetStep(s3, ev)} :
    \E s5 \in {IF s3.rerun THEN s3 ELSE MessageStep(s4, ev)} :
    \E s6 \in {IF s3.rerun THEN s3 ELSE FormStep(s5, ev)} :
    \E st \in {IF s3.rerun THEN s3 ELSE OutcomeStep(s6, ev)} :
       /\ access_token' = st.access_token
       /\ devices' = st.devices
       /\ selected_uuid' = st.selected_uuid
       /\ current_settings' = st.current_settings
       /\ status_message' = st.status_message
       /\ device_select' = st.device_select
       /\ rerun' = st.rerun
       /\ button' = st.button
       /\ calls' = st.calls
       /\ returned' = st.returned
       /\ responses' = st.responses
       /\ submitted' = st.submitted
       /\ entered' = st.entered
       /\ discarded' = st.discarded
       /\ shown' = st.shown
       /\ raised' = st.raised
       /\ settings_uuid' = st.settings_uuid
       /\ nhtsa_responses' = st.nhtsa_responses

(***************************************************************************)
(* What the servers may answer and what the user may enter.                *)
(***************************************************************************)
\* The longest device list the server returns.
MaxDevices == 2

Timeout == Response("ReadTimeout", 0, "invalid", EmptyDict, "")
HttpError(status, text) == Response(None, status, "invalid", EmptyDict, text)
Json(kind, data) == Response(None, 200, kind, data, "")

\* POST /auth/token
TokenResponses ==
    { Timeout, HttpError(401, "bad credentials"),
      Json("invalid", EmptyDict), Json("list", EmptyDict),
      Json("dict", EmptyDict), Json("dict", "token" :> ""),
      Json("dict", "token" :> "tokA") }

VIN1 == "1FTFW1ET7BFC12345"

\* The devices the server knows, in its order: the first and the last share
\* a serial number, the second has a VIN.
ServerDevices ==
    << ("uuid" :> "u1") @@ ("enclosure_serial_no" :> "SN42") @@ ("vin" :> ""),
       ("uuid" :> "u2") @@ ("enclosure_serial_no" :> "SN43") @@ ("vin" :> VIN1),
       ("uuid" :> "u3") @@ ("enclosure_serial_no" :> "SN42") >>

\* results: any at most MaxDevices of them, in the server's order.
Listings ==
    { SelectSeq(ServerDevices, LAMBDA d : d \in kept) :
        kept \in { k \in SUBSET { ServerDevices[i] : i \in 1..Len(ServerDevices) } :
                     Cardinality(k) <= MaxDevices } }

\* GET /ravens
ListResponses ==
    { Timeout, HttpError(500, "server error"), Json("list", EmptyDict),
      Json("results_not_list", EmptyDict), Json("dict", EmptyDict) }
    \cup { Json("dict", "results" :> l) : l \in Listings }

\* An entry of Results that is an object.
Result(variable, value) == << ("Variable" :> variable) @@ ("Value" :> value) >>

\* GET vpic.nhtsa.dot.gov/api/vehicles/DecodeVin/{vin}
NhtsaResponses ==
    { Timeout,
      Json("dict", "Results" :> << Result("Make", "Ford"), Result("Model", "F-150"),
                                    Result("Model Year", "2011") >>),
      Json("dict", "Results" :> << Result("Make", "N/A"), Result("Model", "F-150"),
                                    Result("Model Year", "2011") >>) }

Lookups == [{VIN1} -> NhtsaResponses]

DocFull ==
    ("audio" :> (("audio_notifications_enabled" :> PyTrue)
                 @@ ("streaming_audio_enabled" :> PyFalse)
                 @@ ("message_notification_audio_enabled" :> PyTrue)))
    @@ ("camera" :> (("road_camera" :> (("camera_enabled" :> PyTrue)
                                        @@ ("audio_recording" :> PyFalse)))
                     @@ ("cabin_camera" :> (("camera_enabled" :> PyFalse)
                                            @@ ("audio_recording" :> PyFalse)))
                     @@ ("video_recording_profile" :> "balanced")))
    @@ ("events" :> (("harsh_braking_event_enabled" :> PyTrue)
                     @@ ("speeding_event_threshold" :> "300")
                     @@ ("speeding_event_threshold_type" :> "PERCENT")
                     @@ ("tailgating_detection_follow_time" :> "1.5")))
    @@ ("obd" :> (("canbus_enabled" :> PyTrue)
                  @@ ("low_battery_cutoff_millivolts" :> "11500")))
    @@ ("wifi_hotspot" :> (("hotspot_enabled" :> PyTrue)
                           @@ ("auto_disable_on_engine_off" :> PyTrue)
                           @@ ("ssid" :> "raven") @@ ("password" :> "secret")))
    @@ ("driver_id" :> (("barcode_driver_id_enabled" :> PyTrue)
                        @@ ("barcode_driver_id_request_period" :> "ALWAYS")
                        @@ ("barcode_driver_id_audio_delay" :> "5")))
    @@ ("system" :> (("gesture_enabled" :> PyTrue)
                     @@ ("video_recording_after_parked_duration" :> "300")
                     @@ ("vehicle_speed_adjustment_percent" :> "5")))
    @@ ("eld" :> (("eld_enabled" :> PyTrue)
                  @@ ("eld_visual_ud_alert_enabled" :> PyFalse)
                  @@ ("eld_visual_ud_alert_period" :> "300")))

\* DocFull as the server stores it after clamping a threshold.
DocClamped ==
    [DocFull EXCEPT !["events"] = ("speeding_event_threshold" :> "80") @@ @]

\* Sections and keys missing, and keys no form field covers.
DocSparse ==
    ("audio" :> (("streaming_audio_enabled" :> PyTrue) @@ ("volume_level" :> "5")))
    @@ ("events" :> EmptyDict)
    @@ ("obd" :> ("low_battery_cutoff_millivolts" :> "11500"))
    @@ ("wifi_hotspot" :> (("hotspot_enabled" :> PyTrue) @@ ("band" :> "5GHz")))

\* An enum value outside its options.
DocBadEnum ==
    [DocFull EXCEPT !["camera"] = ("video_recording_profile" :> "ultra") @@ @]

Docs == {EmptyDict, DocFull, DocClamped, DocSparse, DocBadEnum}

\* GET /ravens/{uuid}/settings
SettingsResponses ==
    { Timeout, HttpError(404, "not found"), Json("null", EmptyDict) }
    \cup { Json("dict", d) : d \in Docs }

\* The refresh's GET is sent only after an update that did not raise.
RefreshResponses(resp) ==
    IF SendRaises(resp) = None THEN SettingsResponses ELSE {Timeout}

\* PATCH /ravens/{uuid}/settings
UpdateResponses == { Timeout, HttpError(400, "invalid value"), Json("null", EmptyDict) }

\* POST and DELETE /ravens/{uuid}/driver-message
MessageResponses == { Timeout, HttpError(500, "server error"), Json("null", EmptyDict) }

\* What the user may have entered in the form when a run starts: nothing, a
\* tick, a text, a number, or an option picked in a selectbox.
UserEdits ==
    { EmptyDict,
      (Field("audio", "streaming_audio_enabled") :> PyFalse)
         @@ (Field("wifi_hotspot", "ssid") :> "newnet")
         @@ (Field("events", "speeding_event_threshold") :> "80") }
    \cup { (Field("camera", "video_recording_profile") :> vid_profile_options[i])
           @@ (Field("events", "speeding_event_threshold_type")
                  :> threshold_type_options[1])
           @@ (Field("driver_id", "barcode_driver_id_request_period")
                  :> request_period_options[1])
           : i \in {4} }

(***************************************************************************)
(* The session starts unauthenticated (lines 126-135); every action is one *)
(* run of the script, started by the user or by st.rerun().                *)
(***************************************************************************)
Init ==
    /\ access_token = None
    /\ devices = <<>>
    /\ selected_uuid = None
    /\ current_settings = <<>>
    /\ status_message = ""
    /\ device_select = <<>>
    /\ rerun = FALSE
    /\ button = "none"
    /\ calls = <<>>
    /\ returned = <<>>
    /\ responses = <<>>
    /\ submitted = <<>>
    /\ entered = EmptyDict
    /\ discarded = <<>>
    /\ shown = <<>>
    /\ raised = None
    /\ settings_uuid = None
    /\ nhtsa_responses = EmptyDict

\* "Request New Access Token"
RequestToken ==
    /\ ~rerun
    /\ \E resp \in TokenResponses : Run([button |-> "token", resp |-> resp])

\* "List Available Ravens", rendered when a token is held (line 172).
ListDevices ==
    /\ ~rerun
    /\ Truthy(access_token)
    /\ \E resp \in ListResponses, lookups \in Lookups :
          Run([button |-> "list", resp |-> resp, lookups |-> lookups])

\* The user picks another name in the device selectbox.
SelectDevice ==
    /\ ~rerun
    /\ device_select # <<>>
    /\ \E i \in 1..Len(device_select[1].options) :
          /\ device_select[1].options[i] # device_select[1].value
          /\ Run([button |-> "select", choice |-> device_select[1].options[i]])

\* "Get Current Settings for Selected Raven", rendered when a device is
\* selected (line 219).
GetSettings ==
    /\ ~rerun
    /\ Truthy(selected_uuid)
    /\ \E resp \in SettingsResponses : Run([button |-> "get", resp |-> resp])

\* "Send Message", rendered with the form (line 234).
SendMessage ==
    /\ ~rerun
    /\ Truthy(selected_uuid)
    /\ TruthyDict(current_settings)
    /\ \E resp \in MessageResponses : Run([button |-> "send", resp |-> resp])

\* "Clear Last Message"
ClearMessage ==
    /\ ~rerun
    /\ Truthy(selected_uuid)
    /\ TruthyDict(current_settings)
    /\ \E resp \in MessageResponses : Run([button |-> "clear", resp |-> resp])

\* "SAVE AND UPDATE ALL SETTINGS TO RAVEN", rendered when the form's render
\* reached it.
SaveSettings ==
    /\ ~rerun
    /\ Truthy(selected_uuid)
    /\ TruthyDict(current_settings)
    /\ FormRaises(current_settings[1]) = None
    /\ \E edits \in UserEdits, resp \in UpdateResponses :
       \E resp2 \in RefreshResponses(resp) :
          Run([button |-> "save", edits |-> edits, resp |-> resp, resp2 |-> resp2])

\* The run st.rerun() starts (lines 211, 441).
Rerun ==
    /\ rerun
    /\ Run([button |-> "none"])

Next ==
    \/ RequestToken
    \/ ListDevices
    \/ SelectDevice
    \/ GetSettings
    \/ SendMessage
    \/ ClearMessage
    \/ SaveSettings
    \/ Rerun

Spec == Init /\ [][Next]_vars

(***************************************************************************)
(* Listings of a fleet with two vehicles that have a VIN, and every shape  *)
(* of answer the VIN lookup can get: the runs of the token and the list    *)
(* buttons alone.                                                          *)
(***************************************************************************)
VIN2 == "2HGFA16598H300001"

FleetDevices ==
    ServerDevices
    \o << ("uuid" :> "u4") @@ ("enclosure_serial_no" :> "SN44") @@ ("vin" :> VIN2) >>

\* results: any at most MaxDevices of the fleet, in the server's order.
FleetListings ==
    { SelectSeq(FleetDevices, LAMBDA d : d \in kept) :
        kept \in { k \in SUBSET { FleetDevices[i] : i \in 1..Len(FleetDevices) } :
                     Cardinality(k) <= MaxDevices } }

\* GET /ravens
FleetListResponses ==
    { Timeout, Json("results_not_list", EmptyDict) }
    \cup { Json("dict", "results" :> l) : l \in FleetListings }

\* A decoded VIN: Results names the make, the model and the model year.
Decoded(year, make, model) ==
    Json("dict", "Results" :> << Result("Make", make), Result("Model", model),
                                 Result("Model Year", year) >>)

\* Lookups that raise: in the request, on the status, in .json(), and in the
\* loop, on an entry of Results that is null after the make was read.
FailedLookups ==
    { Timeout, HttpError(404, "not found"), Json("invalid", EmptyDict),
      Json("dict", "Results" :> << Result("Make", "Ford"), <<>>,
                                   Result("Model", "F-150") >>) }

\* GET DecodeVin/{VIN1}: a failure, no Results, or year, make and model each
\* a value, empty or 'N/A'.
VehicleResponses ==
    FailedLookups \cup { Json("dict", EmptyDict) }
    \cup { Decoded(year, make, model) :
             year \in {"2011", "", "N/A"}, make \in {"Ford", "", "N/A"},
             model \in {"F-150", "", "N/A"} }

\* GET DecodeVin/{VIN2}
SecondVehicleResponses ==
    { Timeout, Decoded("2020", "Honda", "Civic"),
      Json("dict", "Results" :> << Result("Model Year", "2020"), <<>> >>) }

\* The answers to the lookups a listing causes, by VIN.
FleetLookups(resp) ==
    LET devices_data == IF resp.kind = "dict" THEN Get(resp.data, "results", <<>>)
                        ELSE <<>>
        vins == {Get(devices_data[i], "vin", "") : i \in 1..Len(devices_data)} \ {""}
    IN { l \in [vins -> VehicleResponses \cup SecondVehicleResponses] :
            \A vin \in vins :
               l[vin] \in IF vin = VIN1 THEN VehicleResponses ELSE SecondVehicleResponses }

\* "List Available Ravens" on the fleet.
ListVehicles ==
    /\ ~rerun
    /\ Truthy(access_token)
    /\ \E resp \in FleetListResponses :
       \E lookups \in FleetLookups(resp) :
          Run([button |-> "list", resp |-> resp, lookups |-> lookups])

NextList ==
    \/ RequestToken
    \/ ListVehicles
    \/ Rerun

SpecList == Init /\ [][NextList]_vars

(***************************************************************************)
(* Properties.                                                             *)
(***************************************************************************)
Is2xx(resp) == resp.exc = None /\ resp.status >= 200 /\ resp.status < 300

\* A 2xx response whose JSON body is a document.
ServerDocument(resp) == Is2xx(resp) /\ resp.kind = "dict"

Succeeded(i) == returned[i].value /\ returned[i].error = None

TokenCalls == {"list_devices", "get_settings", "update_settings", "send_message",
               "clear_message"}
DeviceCalls == {"get_settings", "update_settings", "send_message", "clear_message"}

\* C1: no list_devices, get_settings, update_settings, send_message or
\* clear_message call is issued while the session holds no token, and no
\* settings or message call is issued while no device is selected.
C1_PreconditionChain ==
    \A i \in 1..Len(calls) :
        /\ calls[i].fn \in TokenCalls => Truthy(calls[i].token)
        /\ calls[i].fn \in DeviceCalls => Truthy(calls[i].uuid)

\* C2: a held settings document was fetched for the selected uuid; a run in
\* which the selected uuid changes leaves no document held and issues no
\* settings or message call.
C2_SettingsOfSelectedDevice ==
    [][ /\ current_settings' # <<>> => settings_uuid' = selected_uuid'
        /\ selected_uuid' # selected_uuid =>
              /\ current_settings' = <<>>
              /\ \A i \in 1..Len(calls') : calls'[i].fn \notin DeviceCalls ]_vars

\* C2's case: a device was picked while another device's settings were held,
\* and they were discarded.
C2_Witness ==
    /\ button = "select"
    /\ TruthyDict(discarded)
    /\ current_settings = <<>>
    /\ settings_uuid # selected_uuid

\* C3: every key of a managed section of the held document that no form
\* field covers is in that section of the submitted payload, with its value.
C3_UnknownKeysPassThrough ==
    [][ submitted' # <<>> =>
          \A section \in ManagedSections :
             \A k \in DOMAIN section_data(current_settings[1], section)
                        \ FormKeys(section) :
                /\ k \in DOMAIN submitted'[1][section]
                /\ submitted'[1][section][k] = current_settings[1][section][k] ]_vars

\* C4: after a run whose update_settings succeeded the session holds a
\* settings document, the one the follow-up get_settings call returned.
C4_UpdateLeavesSettingsLoaded ==
    (button = "save" /\ Len(returned) >= 1 /\ Succeeded(1)) =>
        /\ Len(calls) = 2
        /\ calls[2].fn = "get_settings"
        /\ ServerDocument(responses[2])
        /\ current_settings = <<responses[2].data>>

\* C5: whatever a run assigns to the held document, other than None, is the
\* document a get_settings call of that run received from the server; after
\* an update whose refresh received a document, that document is held.
C5_HeldDocumentIsServerResponse ==
    [][ /\ current_settings' # current_settings =>
              \/ current_settings' = <<>>
              \/ \E i \in 1..Len(calls') :
                    /\ calls'[i].fn = "get_settings"
                    /\ ServerDocument(responses'[i])
                    /\ current_settings' = <<responses'[i].data>>
        /\ (button' = "save" /\ Len(calls') = 2 /\ ServerDocument(responses'[2])) =>
              current_settings' = <<responses'[2].data>> ]_vars

\* C5's case: an update succeeded, the refresh succeeded, and the held
\* document is the server's, which differs from the payload submitted.
C5_Witness ==
    /\ button = "save"
    /\ Len(calls) = 2
    /\ ServerDocument(responses[2])
    /\ current_settings = <<responses[2].data>>
    /\ current_settings # submitted

\* The default C6 claims for a key absent from the document.
ClaimedDefault(section, key) ==
    CASE FieldKind(section, key) = "boolean" -> PyFalse
      [] FieldKind(section, key) = "integer" -> "0"
      [] FieldKind(section, key) = "float" -> "0.0"
      [] FieldKind(section, key) = "string" -> ""
      [] FieldKind(section, key) = "enum" ->
            (CHOOSE e \in EnumFields : e[1] = section /\ e[2] = key)[3][1]
      [] FieldKind(section, key) = "section" ->
            [k \in camera_keys |-> PyFalse]

\* What C6 claims the payload holds for a known key when nothing was edited.
ClaimedValue(s, section, key) ==
    IF FieldKind(section, key) = "section"
    THEN [k \in camera_keys |->
            Get(Get(section_data(s, section), key, EmptyDict), k, PyFalse)]
    ELSE Get(section_data(s, section), key, ClaimedDefault(section, key))

\* C6: with no user edits, the submitted payload holds every managed section
\* with every known key, carrying the document's value or, when the key or
\* the section is absent, false / 0 / "" / the first option.
C6_DefaultsForMissingKeys ==
    [][ (submitted' # <<>> /\ entered' = EmptyDict) =>
          \A section \in ManagedSections :
             /\ section \in DOMAIN submitted'[1]
             /\ \A k \in FormKeys(section) :
                   /\ k \in DOMAIN submitted'[1][section]
                   /\ submitted'[1][section][k]
                         = ClaimedValue(current_settings[1], section, k) ]_vars

InOptions(e, v) == \E i \in 1..Len(e[3]) : e[3][i] = v

\* The document's value for enum field e, the first option when absent.
EnumValue(s, e) == Get(section_data(s, e[1]), e[2], e[3][1])

BadEnumDocument(s) == \E e \in EnumFields : ~InOptions(e, EnumValue(s, e))

DeliversToken(resp) == Is2xx(resp) /\ resp.kind = "dict" /\ "token" \in DOMAIN resp.data

\* C8: request_token returns an error whenever the response is not 2xx or
\* its body has no token field, and a value without error only for a 2xx
\* response with a token; an unauthenticated session becomes authenticated
\* only by such a response.
C8_TokenErrorReported ==
    [][ button' = "token" =>
          /\ ~DeliversToken(responses'[1]) =>
                (returned'[1].error # None /\ ~returned'[1].value)
          /\ DeliversToken(responses'[1]) => Succeeded(1)'
          /\ (access_token = None /\ access_token' # None) => DeliversToken(responses'[1])
          /\ (access_token = None /\ ~DeliversToken(responses'[1])) =>
                access_token' = None ]_vars

\* C9: from DeviceSelected, a get_settings that receives a document (an
\* empty one too) leaves that document held, one that fails leaves none held,
\* and neither changes the token, the device list or the selected uuid.
C9_GetSettingsTransition ==
    [][ ( /\ button' = "get"
          /\ Truthy(selected_uuid)
          /\ current_settings = <<>> ) =>
          /\ ServerDocument(responses'[1]) => current_settings' = <<responses'[1].data>>
          /\ returned'[1].error # None => current_settings' = <<>>
          /\ UNCHANGED <<access_token, devices, selected_uuid>> ]_vars

\* C10: every API call returns exactly one of a value and an error: a value
\* with None in the error position, or no value with an error text.
C10_UniformOutcome ==
    \A i \in 1..Len(returned) : returned[i].value <=> (returned[i].error = None)

\* The last run called list_devices and the server answered with a listing.
Listed ==
    /\ button = "list"
    /\ Len(calls) = 1
    /\ calls[1].fn = "list_devices"
    /\ Is2xx(responses[1])
    /\ responses[1].kind = "dict"

\* The devices of that listing, in the server's order.
ListedDevices == Get(responses[1].data, "results", <<>>)

Vin(device) == Get(device, "vin", "")
Serial(device) == Get(device, "enclosure_serial_no", "N/A")

\* The lookup for this device's VIN was sent and raised.
LookupFailed(device) ==
    Truthy(Vin(device)) /\ LookupRaises(nhtsa_responses[Vin(device)]) # None

\* The lookups of the last run, those for other VINs than this device's
\* replaced by one that succeeds.
OthersDecoded(device) ==
    [vin \in DOMAIN nhtsa_responses |->
        IF vin = Vin(device) THEN nhtsa_responses[vin]
        ELSE Decoded("2020", "Honda", "Civic")]

\* C11: a listing of N devices gives N entries in the server's order whatever
\* lookups fail; a device whose lookup failed is named "Vehicle SN: {serial}"
\* and the status message has a warning for its VIN; every other device is
\* named as it would be had no other lookup failed.
C11_LookupFailureIsolated ==
    Listed =>
       /\ Len(devices) = Len(ListedDevices)
       /\ \A i \in 1..Len(ListedDevices) :
             LET device == ListedDevices[i]
             IN /\ i <= Len(devices) => devices[i].uuid = Get(device, "uuid", "N/A")
                /\ (i <= Len(devices) /\ LookupFailed(device)) =>
                      /\ devices[i].name = "Vehicle SN: " \o Serial(device)
                      /\ status_message =
                            join("\n", status_lines(ListedDevices, nhtsa_responses,
                                                    Len(ListedDevices)))
                      /\ \E k \in 1..Len(status_lines(ListedDevices, nhtsa_responses,
                                                      Len(ListedDevices))) :
                            status_lines(ListedDevices, nhtsa_responses,
                                         Len(ListedDevices))[k]
                               = "Could not look up VIN " \o Vin(device) \o ": "
                                 \o LookupRaises(nhtsa_responses[Vin(device)])
                /\ (i <= Len(devices) /\ ~LookupFailed(device)) =>
                      devices[i].name
                         = device_entry(device, OthersDecoded(device)).option.name

\* The name C12 claims: those of year, make and model that are neither empty
\* nor 'N/A', joined by single spaces, and the serial number when none is.
ClaimedName(year, make, model, sn) ==
    LET kept == SelectSeq(<<year, make, model>>, LAMBDA v : v \notin {"", "N/A"})
    IN IF kept = <<>> THEN "Vehicle SN: " \o sn ELSE join(" ", kept)

\* C12: a listed device with an empty VIN is named "Vehicle SN: {serial}";
\* one whose lookup succeeded is named by the single-space join of the year,
\* make and model that are neither empty nor 'N/A', or by its serial number
\* when none of them is.
C12_DisplayName ==
    Listed =>
       \A i \in 1..Len(devices) :
          LET device == ListedDevices[i]
              results == nhtsa_results(nhtsa_responses[Vin(device)])
          IN IF ~Truthy(Vin(device))
             THEN devices[i].name = "Vehicle SN: " \o Serial(device)
             ELSE ~LookupFailed(device) =>
                     devices[i].name
                        = ClaimedName(nhtsa_value(results, "Model Year", Len(results)),
                                      nhtsa_value(results, "Make", Len(results)),
                                      nhtsa_value(results, "Model", Len(results)),
                                      Serial(device))

\* The options the device picker offers for the session's device list.
PickerOptions == device_names(devices, Len(devices))

\* C13: while the picker is drawn, every listed device has an option whose
\* choice selects that device's uuid, also when listed devices share a display
\* name; and the run st.rerun() starts keeps the selected uuid.
C13_EveryListedDeviceSelectable ==
    [][ /\ device_select' # <<>> =>
              \A i \in 1..Len(devices') :
                 \E j \in 1..Len(PickerOptions') :
                    device_map(devices', PickerOptions'[j]) = devices'[i].uuid
        /\ (rerun /\ Truthy(selected_uuid)) => selected_uuid' = selected_uuid ]_vars

\* C14: a run whose update_settings failed leaves the token, the device list,
\* the selected uuid and the held document as they were, the document still
\* held; it issues no other call, and shows the error update_settings returned.
C14_FailedUpdateChangesNothing ==
    [][ (button' = "save" /\ Len(returned') >= 1 /\ ~Succeeded(1)') =>
          /\ UNCHANGED <<access_token, devices, selected_uuid, current_settings>>
          /\ TruthyDict(current_settings')
          /\ Len(calls') = 1
          /\ calls'[1].fn = "update_settings"
          /\ returned'[1].error # None
          /\ \E i \in 1..Len(shown') : shown'[i] = Shown("error", returned'[1].error) ]_vars

\* C14's case: the update of a held document failed and its error is shown.
C14_Witness ==
    /\ button = "save"
    /\ Len(returned) = 1
    /\ returned[1].fn = "update_settings"
    /\ returned[1].error # None
    /\ TruthyDict(current_settings)
    /\ shown[Len(shown)].level = "error"

=============================================================================
